---- MODULE Spec2Model ----
(***************************************************************************)
(* pytest-ordering: the constraint graph and the test items sorter.        *)
(*                                                                         *)
(*   BaseDirectedGraph  (basegraph.py)          integer vertices           *)
(*   DirectedGraph      (graphs/directedgraph.py) user tokens <-> integers *)
(*   TestItemsSorter    (testitemssorter.py)    head/tail slots + sort     *)
(*                                                                         *)
(* Python lists are sequences (1-based here, 0-based there), dicts and     *)
(* defaultdicts are functions whose DOMAIN is the set of keys, objects are *)
(* records.  A method is an operator from the object's value (and the      *)
(* arguments) to the object's new value, its return value and the          *)
(* exception it ends in ("none" when it returns).                          *)
(***************************************************************************)
EXTENDS Integers, Sequences, FiniteSets, TLC

VARIABLES
    test_items,         \* TestItemsSorter.test_items (its keys)
    start_items,        \* TestItemsSorter.start_items
    end_items,          \* TestItemsSorter.end_items
    new_id,             \* DirectedGraph.new_id
    vertices_map,       \* DirectedGraph.vertices_map      token -> id
    vertices_map_inv,   \* DirectedGraph.vertices_map_inv  id -> token
    vertices,           \* BaseDirectedGraph.vertices
    graph,              \* BaseDirectedGraph.graph      (defaultdict(list))
    graph_inv,          \* BaseDirectedGraph.graph_inv  (defaultdict(list))
    recompute_cycle,    \* BaseDirectedGraph._recompute_cycle
    cycle_cache,        \* BaseDirectedGraph._cycle
    trace,              \* history: the calls made so far, oldest first
    outcome             \* history: what the last call returned or raised

vars == <<test_items, start_items, end_items, new_id, vertices_map,
          vertices_map_inv, vertices, graph, graph_inv, recompute_cycle,
          cycle_cache, trace, outcome>>

baseVars == <<vertices, graph, graph_inv, recompute_cycle, cycle_cache>>
mapVars == <<new_id, vertices_map, vertices_map_inv>>
sorterVars == <<test_items, start_items, end_items>>

-----------------------------------------------------------------------------
(* Bounds of the model *)

\* tokens the caller may use: t1 .. t<MaxTokens>
MaxTokens == 4
\* calls made on a TestItemsSorter before sort_test_items_ids
MaxCalls == 4
\* calls made on a DirectedGraph
MaxGraphCalls == 4
\* calls made on a BaseDirectedGraph
MaxBaseCalls == 4
\* integer vertex IDs handed to a BaseDirectedGraph: 0 .. MaxVertexId
MaxVertexId == 2

TokenNames == <<"t1", "t2", "t3", "t4", "t5", "t6">>
Tokens == {TokenNames[i] : i \in 1..MaxTokens}
VertexIds == 0..MaxVertexId

\* Python's None
NoneVal == "None"

-----------------------------------------------------------------------------
(* Python lists and dicts *)

Range(s) == {s[i] : i \in 1..Len(s)}

InList(x, s) == \E i \in 1..Len(s) : s[i] = x

\* list.index(x), 1-based; 0 when x is not in the list (Python: ValueError)
IndexOf(x, s) ==
    IF InList(x, s) THEN CHOOSE i \in 1..Len(s) : s[i] = x /\ \A j \in 1..(i-1) : s[j] # x
    ELSE 0

\* list.remove(x): drops the first occurrence only
ListRemove(s, x) ==
    LET i == IndexOf(x, s)
    IN  IF i = 0 THEN s
        ELSE [j \in 1..(Len(s)-1) |-> IF j < i THEN s[j] ELSE s[j+1]]

\* list.reverse()
Reverse(s) == [i \in 1..Len(s) |-> s[Len(s) + 1 - i]]

\* [x for x in s if x is not None]
NotNone(s) == SelectSeq(s, LAMBDA x : x # NoneVal)

\* defaultdict(list).__getitem__ as a value: the list, [] for a missing key
Get(m, k) == IF k \in DOMAIN m THEN m[k] ELSE <<>>

\* dict[k] = v
Put(m, k, v) == [x \in (DOMAIN m) \cup {k} |-> IF x = k THEN v ELSE m[x]]

\* the side effect of defaultdict(list).__getitem__: a missing key is inserted
Touch(m, k) == IF k \in DOMAIN m THEN m ELSE Put(m, k, <<>>)

\* dict.pop(k, None)
Pop(m, k) == [x \in (DOMAIN m) \ {k} |-> m[x]]

EmptyMap == [x \in {} |-> <<>>]

\* list(set(s)) for a list of small non-negative ints: CPython's set keeps an
\* int i in slot (i mod table size), so for IDs below the table size (8 or
\* more) iteration is in ascending order of the IDs, whatever the order of s.
RECURSIVE SortedSeqOf(_)
SortedSeqOf(S) ==
    IF S = {} THEN <<>>
    ELSE LET lo == CHOOSE x \in S : \A y \in S : x <= y
         IN  <<lo>> \o SortedSeqOf(S \ {lo})

ListOfSet(s) == SortedSeqOf(Range(s))

-----------------------------------------------------------------------------
(* BaseDirectedGraph: a value g is the record of the object's fields        *)
(*   [vertices, graph, graph_inv, recompute, cycle]                         *)

\* BaseDirectedGraph.__init__
BG_init ==
    [vertices |-> <<>>, graph |-> EmptyMap, graph_inv |-> EmptyMap,
     recompute |-> TRUE, cycle |-> <<>>]

\* add_vertex(vertex_id)
BG_add_vertex(g, v) ==
    IF ~InList(v, g.vertices)
    THEN [g EXCEPT !.recompute = TRUE, !.vertices = Append(@, v)]
    ELSE g

\* the two loops of remove_vertex: in every list that holds v, one list.remove(v)
ScrubOnce(m, v) == [k \in DOMAIN m |-> IF InList(v, m[k]) THEN ListRemove(m[k], v) ELSE m[k]]

\* remove_vertex(vertex_id)
BG_remove_vertex(g, v) ==
    IF InList(v, g.vertices)
    THEN [g EXCEPT !.recompute = TRUE,
                   !.vertices = ListRemove(@, v),
                   !.graph = ScrubOnce(Pop(@, v), v),
                   !.graph_inv = ScrubOnce(Pop(@, v), v)]
    ELSE g

\* add_edge(start_vertex_id, end_vertex_id)
BG_add_edge(g, a, b) ==
    LET g1 == BG_add_vertex(BG_add_vertex(g, a), b)
        \* the test reads self.graph[start_vertex_id], which inserts the key
        g2 == [g1 EXCEPT !.graph = Touch(@, a)]
    IN  IF ~InList(b, g2.graph[a])
        THEN [g2 EXCEPT !.recompute = TRUE,
                        !.graph = Put(@, a, Append(g2.graph[a], b)),
                        !.graph_inv = Put(@, b, Append(Get(g2.graph_inv, b), a))]
        ELSE g2

\* remove_edge that leaves _recompute_cycle as it is
BG_remove_edge_keeps_cache(g, a, b) ==
    IF a \in DOMAIN g.graph /\ InList(b, g.graph[a])
    THEN LET g1 == [g EXCEPT !.graph = Put(@, a, ListRemove(g.graph[a], b)),
                             !.graph_inv = Touch(@, b)]
         IN  IF InList(a, g1.graph_inv[b])
             THEN [g |-> [g1 EXCEPT !.graph_inv = Put(@, b, ListRemove(g1.graph_inv[b], a))],
                   exc |-> "none"]
             ELSE [g |-> g1, exc |-> "ValueError"]
    ELSE [g |-> g, exc |-> "none"]

\* remove_edge(start_vertex_id, end_vertex_id): [g, exc]
\* graph_inv[end].remove(start) raises ValueError when start is not in that
\* list; the forward list has been changed by then.
BG_remove_edge(g, a, b) ==
    IF a \in DOMAIN g.graph /\ InList(b, g.graph[a])
    THEN LET g1 == [g EXCEPT !.recompute = TRUE,
                             !.graph = Put(@, a, ListRemove(g.graph[a], b)),
                             !.graph_inv = Touch(@, b)]
         IN  IF InList(a, g1.graph_inv[b])
             THEN [g |-> [g1 EXCEPT !.graph_inv = Put(@, b, ListRemove(g1.graph_inv[b], a))],
                   exc |-> "none"]
             ELSE [g |-> g1, exc |-> "ValueError"]
    ELSE [g |-> g, exc |-> "none"]

\* get_subcycle(vertex_id, vertex_visited, recursion_stack):
\*   [visited, stack, res, exc]; the two boolean lists are the sets of the
\*   vertices whose entry is True.  subcycle_loop is the for loop from the
\*   i-th neighbour on.  vertices.index(neighbour_id) raises ValueError for a
\*   neighbour that is not a vertex.
RECURSIVE get_subcycle(_, _, _, _), subcycle_loop(_, _, _, _, _)
get_subcycle(g, v, visited, stack) ==
    subcycle_loop(g, v, 1, visited \cup {v}, stack \cup {v})

subcycle_loop(g, v, i, visited, stack) ==
    LET nb == Get(g.graph, v)
    IN  IF i > Len(nb)
        THEN [visited |-> visited, stack |-> stack \ {v}, res |-> <<>>, exc |-> "none"]
        ELSE LET n == nb[i]
             IN  IF ~InList(n, g.vertices)
                 THEN [visited |-> visited, stack |-> stack, res |-> <<>>, exc |-> "ValueError"]
                 ELSE IF n \notin visited
                 THEN LET r == get_subcycle(g, n, visited, stack)
                      IN  IF r.exc # "none" THEN r
                          ELSE IF r.res # <<>> THEN [r EXCEPT !.res = Append(@, v)]
                          ELSE subcycle_loop(g, v, i + 1, r.visited, r.stack)
                 ELSE IF n \in stack
                 THEN [visited |-> visited, stack |-> stack, res |-> <<v>>, exc |-> "none"]
                 ELSE subcycle_loop(g, v, i + 1, visited, stack)

\* every get_subcycle(v, ...) reads self.graph[v]: the visited vertices get a key
TouchAll(m, S) == [k \in (DOMAIN m) \cup S |-> IF k \in DOMAIN m THEN m[k] ELSE <<>>]

\* the for loop of get_graph_cycle from the i-th vertex on: [g, res, exc]
RECURSIVE graph_cycle_loop(_, _, _, _)
graph_cycle_loop(g, i, visited, stack) ==
    IF i > Len(g.vertices)
    THEN [g |-> [g EXCEPT !.graph = TouchAll(@, visited), !.cycle = <<>>, !.recompute = FALSE],
          res |-> <<>>, exc |-> "none"]
    ELSE LET v == g.vertices[i]
         IN  IF v \in visited THEN graph_cycle_loop(g, i + 1, visited, stack)
             ELSE LET r == get_subcycle(g, v, visited, stack)
                      touched == [g EXCEPT !.graph = TouchAll(@, r.visited)]
                  IN  IF r.exc # "none"
                      THEN [g |-> touched, res |-> <<>>, exc |-> r.exc]
                      ELSE IF r.res # <<>>
                      THEN LET c == Append(Reverse(r.res), v)
                           IN  [g |-> [touched EXCEPT !.cycle = c, !.recompute = FALSE],
                                res |-> c, exc |-> "none"]
                      ELSE graph_cycle_loop(g, i + 1, r.visited, r.stack)

\* get_graph_cycle(): [g, res, exc]
BG_get_graph_cycle(g) ==
    IF ~g.recompute
    THEN [g |-> g, res |-> g.cycle, exc |-> "none"]
    ELSE graph_cycle_loop(g, 1, {}, {})

\* is_cyclic(): [g, res, exc]
BG_is_cyclic(g) ==
    IF g.recompute
    THEN LET r == BG_get_graph_cycle(g)
         IN  IF r.exc # "none" THEN [g |-> r.g, res |-> FALSE, exc |-> r.exc]
             ELSE [g |-> r.g, res |-> r.g.cycle # <<>>, exc |-> "none"]
    ELSE [g |-> g, res |-> g.cycle # <<>>, exc |-> "none"]

\* the interpreter's recursion limit, in frames of _get_vertex_dependants
\* (1000 in CPython, scaled to the model): a path of an acyclic graph takes
\* one frame per vertex, fewer than the limit, so only a cyclic region hits it
RecursionLimit == 12

\* _get_vertex_dependants(vertex_id, direction) on the adjacency map m of the
\* direction: [m, exc].  dependant_vertices IS the list m[v] (no copy), the
\* for loop runs over it while += appends to it; the returned list is m[v].
\* dependants_loop is the for loop from the i-th entry on.
RECURSIVE get_dependants_rec(_, _, _), dependants_loop(_, _, _, _)
get_dependants_rec(m, v, depth) ==
    IF depth > RecursionLimit
    THEN [m |-> m, exc |-> "RecursionError"]
    ELSE dependants_loop(Touch(m, v), v, 1, depth)

dependants_loop(m, v, i, depth) ==
    IF i > Len(m[v])
    THEN [m |-> m, exc |-> "none"]
    ELSE LET child == m[v][i]
             r == get_dependants_rec(m, child, depth + 1)
         IN  IF r.exc # "none" THEN r
             ELSE dependants_loop([r.m EXCEPT ![v] = @ \o r.m[child]], v, i + 1, depth)

\* get_vertex_dependants(vertex_id, direction): [g, res, exc]
\* (direction is 'forward' or 'backward'; require_in_list passes)
BG_get_vertex_dependants(g, v, direction) ==
    LET m == IF direction = "forward" THEN g.graph ELSE g.graph_inv
        r == get_dependants_rec(m, v, 1)
        g1 == IF direction = "forward" THEN [g EXCEPT !.graph = r.m]
                                       ELSE [g EXCEPT !.graph_inv = r.m]
    IN  IF r.exc # "none"
        THEN [g |-> g1, res |-> <<>>, exc |-> r.exc]
        ELSE [g |-> g1, res |-> ListOfSet(r.m[v]), exc |-> "none"]

\* get_next_end_vertex(graph, remaining_vertices): [g, res, exc]; the test
\* reads graph.graph[vertex_id] of every vertex up to the one returned
RECURSIVE next_end_loop(_, _, _)
next_end_loop(g, remaining, i) ==
    IF i > Len(remaining)
    THEN [g |-> g, res |-> -1, exc |-> "ValueError"]
    ELSE LET g1 == [g EXCEPT !.graph = Touch(@, remaining[i])]
         IN  IF g1.graph[remaining[i]] = <<>>
             THEN [g |-> g1, res |-> remaining[i], exc |-> "none"]
             ELSE next_end_loop(g1, remaining, i + 1)

BG_get_next_end_vertex(g, remaining) ==
    IF remaining = <<>>
    THEN [g |-> g, res |-> -1, exc |-> "ValueError"]
    ELSE next_end_loop(g, remaining, 1)

\* the while loop of sort_graph on the working copy: [res, exc]
RECURSIVE sort_loop(_, _, _)
sort_loop(copy, unsorted, sorted) ==
    IF Len(unsorted) > 1
    THEN LET r == BG_get_next_end_vertex(copy, unsorted)
         IN  IF r.exc # "none" THEN [res |-> <<>>, exc |-> r.exc]
             ELSE sort_loop(BG_remove_vertex(r.g, r.res),
                            ListRemove(unsorted, r.res),
                            Append(sorted, r.res))
    ELSE IF unsorted = <<>>
    THEN [res |-> <<>>, exc |-> "IndexError"]
    ELSE [res |-> Reverse(Append(sorted, unsorted[1])), exc |-> "none"]

\* sort_graph without the final reverse()
BG_sort_graph_unreversed(g) ==
    LET undo(r) == [r EXCEPT !.res = Reverse(@)]
    IN  undo(sort_loop(g, g.vertices, <<>>))

\* sort_graph(): [res, exc]; self is left alone (the loop works on a deepcopy)
BG_sort_graph(g) == sort_loop(g, g.vertices, <<>>)

-----------------------------------------------------------------------------
(* DirectedGraph: a value d is the record of the object's fields            *)
(*   [new_id, vertices_map, vertices_map_inv, graph]                        *)

\* DirectedGraph.__init__
DG_init ==
    [new_id |-> 0, vertices_map |-> EmptyMap, vertices_map_inv |-> EmptyMap,
     graph |-> BG_init]

\* add_vertex(vertex): [d, res]
DG_add_vertex(d, vertex) ==
    LET vertex_id == d.new_id
    IN  [d |-> [d EXCEPT !.new_id = @ + 1,
                         !.vertices_map = Put(@, vertex, vertex_id),
                         !.vertices_map_inv = Put(@, vertex_id, vertex),
                         !.graph = BG_add_vertex(@, vertex_id)],
         res |-> vertex_id]

\* _get_vertex_id(vertex): [d, res]
DG_get_vertex_id(d, vertex) ==
    IF vertex \in DOMAIN d.vertices_map
    THEN [d |-> d, res |-> d.vertices_map[vertex]]
    ELSE DG_add_vertex(d, vertex)

\* remove_vertex(vertex)
DG_remove_vertex(d, vertex) ==
    IF vertex \in DOMAIN d.vertices_map
    THEN LET vertex_id == d.vertices_map[vertex]
         IN  [d EXCEPT !.vertices_map = Pop(@, vertex),
                       !.vertices_map_inv = Pop(@, vertex_id),
                       !.graph = BG_remove_vertex(@, vertex_id)]
    ELSE d

\* add_edge(start_vertex, end_vertex); the arguments are evaluated left to right
DG_add_edge(d, start_vertex, end_vertex) ==
    LET a == DG_get_vertex_id(d, start_vertex)
        b == DG_get_vertex_id(a.d, end_vertex)
    IN  [b.d EXCEPT !.graph = BG_add_edge(@, a.res, b.res)]

\* remove_edge(start_vertex, end_vertex): [d, exc]
DG_remove_edge(d, start_vertex, end_vertex) ==
    LET a == DG_get_vertex_id(d, start_vertex)
        b == DG_get_vertex_id(a.d, end_vertex)
        r == BG_remove_edge(b.d.graph, a.res, b.res)
    IN  [d |-> [b.d EXCEPT !.graph = r.g], exc |-> r.exc]

\* [self.vertices_map_inv[vertex_id] for vertex_id in ids]: [res, exc],
\* KeyError for an ID that has no token
MapIds(inv, ids) ==
    IF \A i \in 1..Len(ids) : ids[i] \in DOMAIN inv
    THEN [res |-> [i \in 1..Len(ids) |-> inv[ids[i]]], exc |-> "none"]
    ELSE [res |-> <<>>, exc |-> "KeyError"]

\* graph_cycle(): [d, res, exc]
DG_graph_cycle(d) ==
    LET r == BG_get_graph_cycle(d.graph)
        d1 == [d EXCEPT !.graph = r.g]
        mapped == MapIds(d.vertices_map_inv, r.res)
    IN  IF r.exc # "none" THEN [d |-> d1, res |-> <<>>, exc |-> r.exc]
        ELSE [d |-> d1, res |-> mapped.res, exc |-> mapped.exc]

\* is_graph_acyclic(): [d, res, exc]
DG_is_graph_acyclic(d) ==
    LET r == DG_graph_cycle(d)
    IN  [d |-> r.d, res |-> (r.exc = "none" /\ r.res = <<>>), exc |-> r.exc]

\* get_vertex_dependants(vertex, direction): [d, res, exc]
DG_get_vertex_dependants(d, vertex, direction) ==
    LET a == DG_get_vertex_id(d, vertex)
        r == BG_get_vertex_dependants(a.d.graph, a.res, direction)
        d1 == [a.d EXCEPT !.graph = r.g]
        mapped == MapIds(d1.vertices_map_inv, r.res)
    IN  IF r.exc # "none" THEN [d |-> d1, res |-> <<>>, exc |-> r.exc]
        ELSE [d |-> d1, res |-> mapped.res, exc |-> mapped.exc]

\* sort_graph(isolated_vertices_position): [res, exc].  The position
\* ('start' or 'end'; require_in_list passes) is handed on to the integer
\* graph's sort_graph, which has no branch on it.
DG_sort_graph(d, isolated_vertices_position) ==
    LET r == BG_sort_graph(d.graph)
        mapped == MapIds(d.vertices_map_inv, r.res)
    IN  IF r.exc # "none" THEN [res |-> <<>>, exc |-> r.exc]
        ELSE mapped

-----------------------------------------------------------------------------
(* configs.py *)

start_test_items_map ==
    [first |-> 0, second |-> 1, third |-> 2, fourth |-> 3, fifth |-> 4,
     sixth |-> 5, seventh |-> 6, eighth |-> 7, ninth |-> 8, tenth |-> 9]

end_test_items_map ==
    [tenth_to_last |-> 0, ninth_to_last |-> 1, eighth_to_last |-> 2,
     seventh_to_last |-> 3, sixth_to_last |-> 4, fifth_to_last |-> 5,
     fourth_to_last |-> 6, third_to_last |-> 7, second_to_last |-> 8, last |-> 9]

special_test_items == (DOMAIN start_test_items_map) \cup (DOMAIN end_test_items_map)

-----------------------------------------------------------------------------
(* TestItemsSorter: a value s is the record of the object's fields          *)
(*   [test_items, start_items, end_items, graph]                            *)

\* TestItemsSorter.__init__
TS_init ==
    [test_items |-> {},
     start_items |-> [i \in 1..Cardinality(DOMAIN start_test_items_map) |-> NoneVal],
     end_items |-> [i \in 1..Cardinality(DOMAIN end_test_items_map) |-> NoneVal],
     graph |-> DG_init]

\* add_test_item without the test for a known item
add_test_item_unguarded(s, test_item_id, special_test_item) ==
    LET s1 == [s EXCEPT !.test_items = @ \cup {test_item_id},
                        !.graph = DG_add_vertex(@, test_item_id).d]
    IN  IF special_test_item = NoneVal THEN s1
        ELSE IF special_test_item \in DOMAIN start_test_items_map
        THEN [s1 EXCEPT !.start_items[start_test_items_map[special_test_item] + 1] = test_item_id]
        ELSE [s1 EXCEPT !.end_items[end_test_items_map[special_test_item] + 1] = test_item_id]

\* add_test_item(test_item, special_test_item), test_item_id being the item's
\* name; special_test_item is None or one of special_test_items
add_test_item(s, test_item_id, special_test_item) ==
    LET s1 == IF test_item_id \notin s.test_items
              THEN [s EXCEPT !.test_items = @ \cup {test_item_id},
                             !.graph = DG_add_vertex(@, test_item_id).d]
              ELSE s
    IN  IF special_test_item = NoneVal THEN s1
        ELSE IF special_test_item \in DOMAIN start_test_items_map
        THEN [s1 EXCEPT !.start_items[start_test_items_map[special_test_item] + 1] = test_item_id]
        ELSE [s1 EXCEPT !.end_items[end_test_items_map[special_test_item] + 1] = test_item_id]

\* add_relation(start_test_item_id, end_test_item_id)
add_relation(s, start_test_item_id, end_test_item_id) ==
    [s EXCEPT !.graph = DG_add_edge(@, start_test_item_id, end_test_item_id)]

\* for a, b in zip(ids, ids[1:]): graph.add_edge(a, b), from the i-th pair on
RECURSIVE add_chain(_, _, _)
add_chain(d, ids, i) ==
    IF i >= Len(ids) THEN d
    ELSE add_chain(DG_add_edge(d, ids[i], ids[i + 1]), ids, i + 1)

\* add_start_relations()
add_start_relations(s) ==
    [s EXCEPT !.graph = add_chain(@, NotNone(s.start_items), 1)]

\* add_end_relations()
add_end_relations(s) ==
    [s EXCEPT !.graph = add_chain(@, NotNone(s.end_items), 1)]

\* an exception of the sorter: SortingError is raised by the three checks,
\* check names the one that raised it and tokens what its message lists
NoError == [exc |-> "none", check |-> "none", tokens |-> <<>>]

\* check_no_execution_loop(): [s, err]
check_no_execution_loop(s) ==
    LET raise(c) ==
            [s |-> [s EXCEPT !.graph = c.d],
             err |-> [exc |-> "SortingError", check |-> "loop", tokens |-> c.res]]
        test(a) ==
            IF a.exc # "none"
            THEN [s |-> [s EXCEPT !.graph = a.d],
                  err |-> [exc |-> a.exc, check |-> "loop", tokens |-> <<>>]]
            ELSE IF a.res THEN [s |-> [s EXCEPT !.graph = a.d], err |-> NoError]
            ELSE raise(DG_graph_cycle(a.d))
    IN  test(DG_is_graph_acyclic(s.graph))

\* check_start_items_execution_order(): [s, err]
check_start_items_execution_order(s) ==
    LET start_test_items_ids == NotNone(s.start_items)
        lastItem == start_test_items_ids[Len(start_test_items_ids)]
        compare(s1, execution_order) ==
            IF start_test_items_ids # execution_order
            THEN [s |-> s1,
                  err |-> [exc |-> "SortingError", check |-> "start",
                           tokens |-> SelectSeq(execution_order,
                                         LAMBDA x : ~InList(x, start_test_items_ids))]]
            ELSE [s |-> s1, err |-> NoError]
        test(r) ==
            IF r.exc # "none"
            THEN [s |-> [s EXCEPT !.graph = r.d],
                  err |-> [exc |-> r.exc, check |-> "start", tokens |-> <<>>]]
            ELSE compare([s EXCEPT !.graph = r.d], Append(Reverse(r.res), lastItem))
    IN  IF start_test_items_ids = <<>> THEN [s |-> s, err |-> NoError]
        ELSE test(DG_get_vertex_dependants(s.graph, lastItem, "backward"))

\* check_end_items_execution_order(): [s, err]
check_end_items_execution_order(s) ==
    LET end_test_items_ids == NotNone(s.end_items)
        firstItem == end_test_items_ids[1]
        compare(s1, execution_order) ==
            IF end_test_items_ids # execution_order
            THEN [s |-> s1,
                  err |-> [exc |-> "SortingError", check |-> "end",
                           tokens |-> SelectSeq(execution_order,
                                         LAMBDA x : ~InList(x, end_test_items_ids))]]
            ELSE [s |-> s1, err |-> NoError]
        test(r) ==
            IF r.exc # "none"
            THEN [s |-> [s EXCEPT !.graph = r.d],
                  err |-> [exc |-> r.exc, check |-> "end", tokens |-> <<>>]]
            ELSE compare([s EXCEPT !.graph = r.d], <<firstItem>> \o r.res)
    IN  IF end_test_items_ids = <<>> THEN [s |-> s, err |-> NoError]
        ELSE test(DG_get_vertex_dependants(s.graph, firstItem, "forward"))

\* check_if_sorting_possible with the loop check made last
check_if_sorting_possible_loop_last(s) ==
    LET third(c) == IF c.err.exc # "none" THEN c
                    ELSE check_no_execution_loop(c.s)
        second(b) == IF b.err.exc # "none" THEN b
                     ELSE third(check_end_items_execution_order(b.s))
    IN  second(check_start_items_execution_order(
                   add_end_relations(add_start_relations(s))))

\* check_if_sorting_possible(): [s, err]
check_if_sorting_possible(s) ==
    LET third(b) == IF b.err.exc # "none" THEN b
                    ELSE check_end_items_execution_order(b.s)
        second(a) == IF a.err.exc # "none" THEN a
                     ELSE third(check_start_items_execution_order(a.s))
    IN  second(check_no_execution_loop(
                   add_end_relations(add_start_relations(s))))

\* for x in ids: graph.remove_vertex(x), from the i-th on
RECURSIVE remove_all(_, _, _)
remove_all(d, ids, i) ==
    IF i > Len(ids) THEN d
    ELSE remove_all(DG_remove_vertex(d, ids[i]), ids, i + 1)

\* build_sorted_list with the remaining items put first
build_sorted_list_remaining_first(start_ids, remaining_ids, end_ids) ==
    remaining_ids \o start_ids \o end_ids

\* the concatenation that ends sort_test_items_ids
build_sorted_list(start_ids, remaining_ids, end_ids) ==
    start_ids \o remaining_ids \o end_ids

\* sort_test_items_ids(): [s, res, err]
sort_test_items_ids(s) ==
    LET start_test_items_ids == NotNone(s.start_items)
        end_test_items_ids == NotNone(s.end_items)
        build(s1, r) ==
            IF r.exc # "none"
            THEN [s |-> s1, res |-> <<>>,
                  err |-> [exc |-> r.exc, check |-> "sort", tokens |-> <<>>]]
            ELSE [s |-> s1,
                  res |-> build_sorted_list(start_test_items_ids, r.res,
                                            end_test_items_ids),
                  err |-> NoError]
        sort(copy) == DG_sort_graph(
                          remove_all(remove_all(copy, start_test_items_ids, 1),
                                     end_test_items_ids, 1), "end")
        checked(c) ==
            IF c.err.exc # "none" THEN [s |-> c.s, res |-> <<>>, err |-> c.err]
            ELSE build(c.s, sort(c.s.graph))
    IN  checked(check_if_sorting_possible(s))

-----------------------------------------------------------------------------
(* The objects as the state of the machine *)

BGState ==
    [vertices |-> vertices, graph |-> graph, graph_inv |-> graph_inv,
     recompute |-> recompute_cycle, cycle |-> cycle_cache]

DGState ==
    [new_id |-> new_id, vertices_map |-> vertices_map,
     vertices_map_inv |-> vertices_map_inv, graph |-> BGState]

TSState ==
    [test_items |-> test_items, start_items |-> start_items,
     end_items |-> end_items, graph |-> DGState]

SetBG(g) ==
    /\ vertices' = g.vertices
    /\ graph' = g.graph
    /\ graph_inv' = g.graph_inv
    /\ recompute_cycle' = g.recompute
    /\ cycle_cache' = g.cycle

SetDG(d) ==
    /\ new_id' = d.new_id
    /\ vertices_map' = d.vertices_map
    /\ vertices_map_inv' = d.vertices_map_inv
    /\ SetBG(d.graph)

SetTS(s) ==
    /\ test_items' = s.test_items
    /\ start_items' = s.start_items
    /\ end_items' = s.end_items
    /\ SetDG(s.graph)

\* a call and how it ended
Call(name, args, res, err) ==
    [call |-> name, args |-> args, res |-> res,
     exc |-> err.exc, check |-> err.check, tokens |-> err.tokens]

Raised(e) == [exc |-> e, check |-> "none", tokens |-> <<>>]

Record(c) ==
    /\ trace' = Append(trace, [call |-> c.call, args |-> c.args])
    /\ outcome' = c

\* the state after TestItemsSorter() (which constructs its DirectedGraph,
\* which constructs its BaseDirectedGraph)
Init ==
    /\ test_items = TS_init.test_items
    /\ start_items = TS_init.start_items
    /\ end_items = TS_init.end_items
    /\ new_id = DG_init.new_id
    /\ vertices_map = DG_init.vertices_map
    /\ vertices_map_inv = DG_init.vertices_map_inv
    /\ vertices = BG_init.vertices
    /\ graph = BG_init.graph
    /\ graph_inv = BG_init.graph_inv
    /\ recompute_cycle = BG_init.recompute
    /\ cycle_cache = BG_init.cycle
    /\ trace = <<>>
    /\ outcome = Call("__init__", <<>>, <<>>, NoError)

-----------------------------------------------------------------------------
(* The caller of a TestItemsSorter: the items and relations of one session, *)
(* then one sort_test_items_ids()                                           *)

\* the absolute positions the caller uses: three from each end
Positions == {"first", "second", "third", "third_to_last", "second_to_last", "last"}

\* Tokens are opaque to the sorter: the caller takes the next unused name for
\* a token it has not used before (every session is one of these up to the
\* names of its tokens)
TokenIndex(t) == CHOOSE i \in 1..MaxTokens : TokenNames[i] = t
Fresh(used) == {t \in Tokens : \A i \in 1..(TokenIndex(t) - 1) : TokenNames[i] \in used}
UsedTokens == {t \in Tokens : \E i \in 1..Len(trace) : InList(t, trace[i].args)}

Sorted == outcome.call = "sort_test_items_ids"

AddTestItem ==
    /\ ~Sorted
    /\ Len(trace) < MaxCalls
    /\ \E t \in Fresh(UsedTokens), p \in Positions \cup {NoneVal} :
          /\ SetTS(add_test_item(TSState, t, p))
          /\ Record(Call("add_test_item", <<t, p>>, <<>>, NoError))

AddRelation ==
    /\ ~Sorted
    /\ Len(trace) < MaxCalls
    /\ \E a \in Fresh(UsedTokens) :
          \E b \in Fresh(UsedTokens \cup {a}) :
             /\ SetTS(add_relation(TSState, a, b))
             /\ Record(Call("add_relation", <<a, b>>, <<>>, NoError))

SortTestItemsIds ==
    /\ ~Sorted
    /\ LET r == sort_test_items_ids(TSState)
       IN  /\ SetTS(r.s)
           /\ Record(Call("sort_test_items_ids", <<>>, r.res, r.err))

Next == AddTestItem \/ AddRelation \/ SortTestItemsIds

Spec == Init /\ [][Next]_vars

-----------------------------------------------------------------------------
(* The caller of a DirectedGraph *)

Directions == {"forward", "backward"}
IsolatedPositions == {"start", "end"}

DGAddVertex ==
    /\ Len(trace) < MaxGraphCalls
    /\ \E t \in Fresh(UsedTokens) :
          LET r == DG_add_vertex(DGState, t)
          IN  /\ SetDG(r.d)
              /\ Record(Call("add_vertex", <<t>>, r.res, NoError))
    /\ UNCHANGED sorterVars

DGRemoveVertex ==
    /\ Len(trace) < MaxGraphCalls
    /\ \E t \in Fresh(UsedTokens) :
          /\ SetDG(DG_remove_vertex(DGState, t))
          /\ Record(Call("remove_vertex", <<t>>, <<>>, NoError))
    /\ UNCHANGED sorterVars

DGAddEdge ==
    /\ Len(trace) < MaxGraphCalls
    /\ \E a \in Fresh(UsedTokens) :
          \E b \in Fresh(UsedTokens \cup {a}) :
             /\ SetDG(DG_add_edge(DGState, a, b))
             /\ Record(Call("add_edge", <<a, b>>, <<>>, NoError))
    /\ UNCHANGED sorterVars

DGRemoveEdge ==
    /\ Len(trace) < MaxGraphCalls
    /\ \E a \in Fresh(UsedTokens) :
          \E b \in Fresh(UsedTokens \cup {a}) :
             LET r == DG_remove_edge(DGState, a, b)
             IN  /\ SetDG(r.d)
                 /\ Record(Call("remove_edge", <<a, b>>, <<>>, Raised(r.exc)))
    /\ UNCHANGED sorterVars

DGGraphCycle ==
    /\ Len(trace) < MaxGraphCalls
    /\ LET r == DG_graph_cycle(DGState)
       IN  /\ SetDG(r.d)
           /\ Record(Call("graph_cycle", <<>>, r.res, Raised(r.exc)))
    /\ UNCHANGED sorterVars

DGIsGraphAcyclic ==
    /\ Len(trace) < MaxGraphCalls
    /\ LET r == DG_is_graph_acyclic(DGState)
       IN  /\ SetDG(r.d)
           /\ Record(Call("is_graph_acyclic", <<>>, r.res, Raised(r.exc)))
    /\ UNCHANGED sorterVars

DGGetVertexDependants ==
    /\ Len(trace) < MaxGraphCalls
    /\ \E t \in Fresh(UsedTokens), dir \in Directions :
          LET r == DG_get_vertex_dependants(DGState, t, dir)
          IN  /\ SetDG(r.d)
              /\ Record(Call("get_vertex_dependants", <<t, dir>>, r.res, Raised(r.exc)))
    /\ UNCHANGED sorterVars

\* sort_graph working on the graph itself for its first removal
DGSortGraph_on_self ==
    /\ Len(trace) < MaxGraphCalls
    /\ \E pos \in IsolatedPositions :
          LET r == DG_sort_graph(DGState, pos)
              first == BG_get_next_end_vertex(BGState, vertices)
          IN  /\ SetDG([DGState EXCEPT !.graph = BG_remove_vertex(first.g, first.res)])
              /\ Record(Call("sort_graph", <<pos>>, r.res, Raised(r.exc)))
    /\ UNCHANGED sorterVars

DGSortGraph ==
    /\ Len(trace) < MaxGraphCalls
    /\ \E pos \in IsolatedPositions :
          LET r == DG_sort_graph(DGState, pos)
          IN  /\ UNCHANGED <<mapVars, baseVars>>
              /\ Record(Call("sort_graph", <<pos>>, r.res, Raised(r.exc)))
    /\ UNCHANGED sorterVars

NextDG ==
    \/ DGAddVertex \/ DGRemoveVertex \/ DGAddEdge \/ DGRemoveEdge
    \/ DGGraphCycle \/ DGIsGraphAcyclic \/ DGGetVertexDependants \/ DGSortGraph

SpecDG == Init /\ [][NextDG]_vars

-----------------------------------------------------------------------------
(* The caller of a BaseDirectedGraph *)

BGAddVertex ==
    /\ Len(trace) < MaxBaseCalls
    /\ \E v \in VertexIds :
          /\ SetBG(BG_add_vertex(BGState, v))
          /\ Record(Call("add_vertex", <<v>>, <<>>, NoError))
    /\ UNCHANGED <<sorterVars, mapVars>>

BGRemoveVertex ==
    /\ Len(trace) < MaxBaseCalls
    /\ \E v \in VertexIds :
          /\ SetBG(BG_remove_vertex(BGState, v))
          /\ Record(Call("remove_vertex", <<v>>, <<>>, NoError))
    /\ UNCHANGED <<sorterVars, mapVars>>

BGAddEdge ==
    /\ Len(trace) < MaxBaseCalls
    /\ \E a \in VertexIds, b \in VertexIds :
          /\ SetBG(BG_add_edge(BGState, a, b))
          /\ Record(Call("add_edge", <<a, b>>, <<>>, NoError))
    /\ UNCHANGED <<sorterVars, mapVars>>

BGRemoveEdge ==
    /\ Len(trace) < MaxBaseCalls
    /\ \E a \in VertexIds, b \in VertexIds :
          LET r == BG_remove_edge(BGState, a, b)
          IN  /\ SetBG(r.g)
              /\ Record(Call("remove_edge", <<a, b>>, <<>>, Raised(r.exc)))
    /\ UNCHANGED <<sorterVars, mapVars>>

BGGetGraphCycle ==
    /\ Len(trace) < MaxBaseCalls
    /\ LET r == BG_get_graph_cycle(BGState)
       IN  /\ SetBG(r.g)
           /\ Record(Call("get_graph_cycle", <<>>, r.res, Raised(r.exc)))
    /\ UNCHANGED <<sorterVars, mapVars>>

BGIsCyclic ==
    /\ Len(trace) < MaxBaseCalls
    /\ LET r == BG_is_cyclic(BGState)
       IN  /\ SetBG(r.g)
           /\ Record(Call("is_cyclic", <<>>, r.res, Raised(r.exc)))
    /\ UNCHANGED <<sorterVars, mapVars>>

BGGetVertexDependants ==
    /\ Len(trace) < MaxBaseCalls
    /\ \E v \in VertexIds, dir \in Directions :
          LET r == BG_get_vertex_dependants(BGState, v, dir)
          IN  /\ SetBG(r.g)
              /\ Record(Call("get_vertex_dependants", <<v, dir>>, r.res, Raised(r.exc)))
    /\ UNCHANGED <<sorterVars, mapVars>>

BGSortGraph ==
    /\ Len(trace) < MaxBaseCalls
    /\ LET r == BG_sort_graph(BGState)
       IN  /\ UNCHANGED baseVars
           /\ Record(Call("sort_graph", <<>>, r.res, Raised(r.exc)))
    /\ UNCHANGED <<sorterVars, mapVars>>

NextBG ==
    \/ BGAddVertex \/ BGRemoveVertex \/ BGAddEdge \/ BGRemoveEdge
    \/ BGGetGraphCycle \/ BGIsCyclic \/ BGGetVertexDependants \/ BGSortGraph

SpecBG == Init /\ [][NextBG]_vars

-----------------------------------------------------------------------------
(* A caller of a BaseDirectedGraph that makes longer runs of fewer kinds of *)
(* calls: edges between two different vertices, vertex removals and forward *)
(* queries                                                                   *)

\* calls made on a BaseDirectedGraph by this caller
MaxLongCalls == 6

LongAddEdge ==
    /\ Len(trace) < MaxLongCalls
    /\ \E a \in VertexIds :
       \E b \in VertexIds \ {a} :
          /\ SetBG(BG_add_edge(BGState, a, b))
          /\ Record(Call("add_edge", <<a, b>>, <<>>, NoError))
    /\ UNCHANGED <<sorterVars, mapVars>>

LongRemoveVertex ==
    /\ Len(trace) < MaxLongCalls
    /\ \E v \in VertexIds :
          /\ SetBG(BG_remove_vertex(BGState, v))
          /\ Record(Call("remove_vertex", <<v>>, <<>>, NoError))
    /\ UNCHANGED <<sorterVars, mapVars>>

LongGetVertexDependants ==
    /\ Len(trace) < MaxLongCalls
    /\ \E v \in VertexIds :
          LET r == BG_get_vertex_dependants(BGState, v, "forward")
          IN  /\ SetBG(r.g)
              /\ Record(Call("get_vertex_dependants", <<v, "forward">>, r.res, Raised(r.exc)))
    /\ UNCHANGED <<sorterVars, mapVars>>

NextBGLong == LongAddEdge \/ LongRemoveVertex \/ LongGetVertexDependants

SpecBGLong == Init /\ [][NextBGLong]_vars

-----------------------------------------------------------------------------
(* What the caller declared, read off the calls it made *)

CallsOf(name) == {i \in 1..Len(trace) : trace[i].call = name}

\* the (before, after) pairs given to add_relation
Relations == {<<trace[i].args[1], trace[i].args[2]>> : i \in CallsOf("add_relation")}

\* the tokens given to add_test_item
RegisteredItems == {trace[i].args[1] : i \in CallsOf("add_test_item")}

\* the tokens given to add_test_item or add_relation
MentionedTokens == RegisteredItems \cup {r[1] : r \in Relations} \cup {r[2] : r \in Relations}

HeadTokens == NotNone(start_items)
TailTokens == NotNone(end_items)
SlotTokens == Range(HeadTokens) \cup Range(TailTokens)

\* the number of head and tail slots a token occupies
SlotCount(t) ==
    Cardinality({i \in 1..Len(start_items) : start_items[i] = t})
    + Cardinality({i \in 1..Len(end_items) : end_items[i] = t})

\* consecutive pairs of a list
ChainPairs(ids) == {<<ids[i], ids[i + 1]>> : i \in 1..(Len(ids) - 1)}

\* every "a before b" the caller declared: relations and slot rankings
DeclaredEdges == Relations \cup ChainPairs(HeadTokens) \cup ChainPairs(TailTokens)

\* the edges the integer graph holds in its forward adjacency
IdEdges == {e \in (DOMAIN graph) \X Range(vertices) : InList(e[2], graph[e[1]])}

\* what can be reached from the set S along the edges E (S included)
RECURSIVE ReachFrom(_, _)
ReachFrom(E, S) ==
    LET N == S \cup {e[2] : e \in {x \in E : x[1] \in S}}
    IN  IF N = S THEN S ELSE ReachFrom(E, N)

\* what can be reached from a by one or more edges of E
Descendants(E, a) == ReachFrom(E, {e[2] : e \in {x \in E : x[1] = a}})

\* some vertex of V lies on a cycle made of edges of E between vertices of V
HasCycleWithin(E, V) ==
    LET EV == {e \in E : e[1] \in V /\ e[2] \in V}
    IN  \E v \in V : v \in Descendants(EV, v)

HasCycle(E) == HasCycleWithin(E, {e[1] : e \in E})

\* sort_test_items_ids() was called and returned an order
Returned == Sorted /\ outcome.exc = "none"

-----------------------------------------------------------------------------
(* Claims about sort_test_items_ids *)

\* C1: whenever sort_test_items_ids() returns an order, for every declared
\* edge (a, b) - every relation given to add_relation and every pair of
\* consecutive occupied head or tail slots - a is placed strictly before b in
\* the returned order.
C1_TopologicalValidity ==
    Returned =>
        \A e \in DeclaredEdges :
            /\ InList(e[1], outcome.res)
            /\ InList(e[2], outcome.res)
            /\ IndexOf(e[1], outcome.res) < IndexOf(e[2], outcome.res)

\* C2: whenever sort_test_items_ids() returns and no token occupies more than
\* one slot, the returned order holds every token given to add_test_item or
\* add_relation exactly once and nothing else.
C2_TotalOrderNoDuplicates ==
    (Returned /\ \A t \in Tokens : SlotCount(t) <= 1) =>
        /\ Range(outcome.res) = MentionedTokens
        /\ Len(outcome.res) = Cardinality(MentionedTokens)


\* the last Len(t) entries of o
Suffix(o, n) == SubSeq(o, Len(o) - n + 1, Len(o))

\* C3: whenever sort_test_items_ids() returns, the order is the occupied head
\* tokens in rank order, then the sorted remainder (which holds every token
\* that occupies no slot), then the occupied tail tokens in rank order; so a
\* head token of a lower rank comes before one of a higher rank, and every
\* head token comes before every token that occupies no slot.
C3_AbsoluteOrderFidelity ==
    Returned =>
        LET o == outcome.res
            nh == Len(HeadTokens)
            nt == Len(TailTokens)
        IN  /\ Len(o) >= nh + nt
            /\ SubSeq(o, 1, nh) = HeadTokens
            /\ Suffix(o, nt) = TailTokens
            /\ \A x \in MentionedTokens \ SlotTokens :
                   \E i \in (nh + 1)..(Len(o) - nt) : o[i] = x
            /\ \A i \in 1..nh : \A j \in (i + 1)..nh :
                   IndexOf(HeadTokens[i], o) < IndexOf(HeadTokens[j], o)
            /\ \A h \in Range(HeadTokens) : \A x \in Range(o) \ SlotTokens :
                   IndexOf(h, o) < IndexOf(x, o)

\* C3's case: an order came back for two heads, a tail and an unslotted token
C3_Witness ==
    /\ Returned
    /\ Len(HeadTokens) >= 2
    /\ Len(TailTokens) >= 1
    /\ Range(outcome.res) \ SlotTokens # {}

\* C4: with one or more tail slots occupied, no relation registered, at least
\* one registered item in no slot (and no token in two slots),
\* sort_test_items_ids() returns, and the order ends with the occupied tail
\* tokens in rank order.
C4_TailOrderWithoutRelations ==
    ( /\ Sorted
      /\ Relations = {}
      /\ TailTokens # <<>>
      /\ RegisteredItems \ SlotTokens # {}
      /\ \A t \in Tokens : SlotCount(t) <= 1 )
    => /\ Returned
       /\ Len(outcome.res) >= Len(TailTokens)
       /\ Suffix(outcome.res, Len(TailTokens)) = TailTokens

\* C5: when the graph is acyclic (the loop check passed), the head-order check
\* raises SortingError if and only if some token that occupies no head slot is
\* a transitive predecessor of an occupied head token.
C5_HeadOrderCheckExact ==
    (Sorted /\ outcome.check # "loop") =>
        ( (outcome.exc = "SortingError" /\ outcome.check = "start")
          <=> \E x \in MentionedTokens \ Range(HeadTokens) :
                 \E h \in Range(HeadTokens) : h \in Descendants(DeclaredEdges, x) )

\* the graph's edges, as tokens
TokenEdges == {<<vertices_map_inv[e[1]], vertices_map_inv[e[2]]>> : e \in IdEdges}

\* C6: if the sorter's graph holds a cycle after the head/tail chains are
\* added, sort_test_items_ids() returns no order: it raises the relations-loop
\* error (the code's SortingError raised by check_no_execution_loop, before
\* the head and tail order checks), and the cycle it reports holds the tokens
\* of a cycle of the graph.
C6_CycleRejection ==
    (Sorted /\ HasCycle(IdEdges)) =>
        /\ outcome.exc = "SortingError"
        /\ outcome.check = "loop"
        /\ outcome.res = <<>>
        /\ HasCycleWithin(TokenEdges, Range(outcome.tokens))

\* C6's case: t1 before t2, t2 before t3, t3 before t1, then the sort
C6_Witness ==
    /\ Sorted
    /\ Len(trace) = 4
    /\ Relations = {<<"t1", "t2">>, <<"t2", "t3">>, <<"t3", "t1">>}
    /\ HasCycle(IdEdges)
    /\ Range(outcome.tokens) = {"t1", "t2", "t3"}

\* C7: with a registered at head rank 'first', b at head rank 'second' and the
\* relation b before a registered (these three calls, in whatever order),
\* sort_test_items_ids() raises SortingError and returns no order.
C7_ContradictedHeadRanking ==
    \A a \in Tokens : \A b \in Tokens \ {a} :
        ( /\ Sorted
          /\ Len(trace) = 4
          /\ {trace[i] : i \in 1..3} =
                {[call |-> "add_test_item", args |-> <<a, "first">>],
                 [call |-> "add_test_item", args |-> <<b, "second">>],
                 [call |-> "add_relation", args |-> <<b, a>>]} )
        => (outcome.exc = "SortingError" /\ outcome.res = <<>>)

\* C8: a second add_test_item(token) with no position, right after a first
\* one, leaves the sorter as it was: known items, slots, ID maps, vertices and
\* both adjacency maps, hence what sort_test_items_ids() would give.
C8_IdempotentRegistration ==
    [][ \A t \in Tokens :
          ( /\ outcome = Call("add_test_item", <<t, NoneVal>>, <<>>, NoError)
            /\ outcome' = outcome
            /\ Len(trace') = Len(trace) + 1 )
          => /\ UNCHANGED <<sorterVars, mapVars, baseVars>>
             /\ sort_test_items_ids(TSState') = sort_test_items_ids(TSState) ]_vars

\* C8's case: the same token was registered twice in a row with no position
C8_Witness ==
    /\ Len(trace) >= 2
    /\ trace[Len(trace)] = trace[Len(trace) - 1]
    /\ trace[Len(trace)].call = "add_test_item"
    /\ trace[Len(trace)].args[2] = NoneVal

-----------------------------------------------------------------------------
(* Claims about the graphs *)

\* C9: after any calls on a DirectedGraph, vertices_map and vertices_map_inv
\* are inverse to each other, the keys of vertices_map_inv are exactly the
\* vertices of the integer graph, and the keys of vertices_map are exactly
\* their tokens.
C9_IdentifierBijection ==
    /\ \A t \in DOMAIN vertices_map :
          /\ vertices_map[t] \in DOMAIN vertices_map_inv
          /\ vertices_map_inv[vertices_map[t]] = t
    /\ \A i \in DOMAIN vertices_map_inv :
          /\ vertices_map_inv[i] \in DOMAIN vertices_map
          /\ vertices_map[vertices_map_inv[i]] = i
    /\ DOMAIN vertices_map_inv = Range(vertices)

\* a list holds no value twice
NoDuplicates(l) == \A i \in 1..Len(l) : \A j \in 1..Len(l) : l[i] = l[j] => i = j

\* C10: after any calls on a BaseDirectedGraph, b is in the forward adjacency
\* of a if and only if a is in the inverse adjacency of b, and no adjacency
\* list holds a vertex twice.
C10_AdjacencySymmetry ==
    /\ \A a \in VertexIds : \A b \in VertexIds :
          InList(b, Get(graph, a)) <=> InList(a, Get(graph_inv, b))
    /\ \A a \in DOMAIN graph : NoDuplicates(graph[a])
    /\ \A b \in DOMAIN graph_inv : NoDuplicates(graph_inv[b])

\* every call made so far is one of the named methods
OnlyCalls(names) == \A i \in 1..Len(trace) : trace[i].call \in names

Mutators == {"add_vertex", "remove_vertex", "add_edge", "remove_edge"}
CycleQueries == {"get_graph_cycle", "is_cyclic"}

\* C11: after any calls of add_vertex, remove_vertex, add_edge, remove_edge,
\* get_graph_cycle and is_cyclic on a BaseDirectedGraph, get_graph_cycle()
\* returns [] if and only if the graph now has no cycle, is_cyclic() is true if
\* and only if get_graph_cycle() is non-empty, and a query just made has
\* answered for the graph as it now is.
C11_CycleQueriesCurrent ==
    OnlyCalls(Mutators \cup CycleQueries) =>
        LET c == BG_get_graph_cycle(BGState)
            y == BG_is_cyclic(BGState)
        IN  /\ c.exc = "none" /\ y.exc = "none"
            /\ (c.res = <<>>) <=> ~HasCycle(IdEdges)
            /\ y.res <=> (c.res # <<>>)
            /\ outcome.call = "get_graph_cycle" =>
                   (outcome.exc = "none" /\ outcome.res = c.res)
            /\ outcome.call = "is_cyclic" =>
                   (outcome.exc = "none" /\ (outcome.res <=> HasCycle(IdEdges)))

\* C11's case: a cycle was reported and cached, then an edge of it was removed
C11_Witness ==
    /\ Len(trace) = 4
    /\ OnlyCalls(Mutators \cup CycleQueries)
    /\ trace[3].call \in CycleQueries
    /\ trace[4].call = "remove_edge"
    /\ cycle_cache # <<>>
    /\ recompute_cycle
    /\ ~HasCycle(IdEdges)

\* c lists a cycle of the edges E in traversal order: consecutive entries are
\* joined by an edge and the walk closes on its first entry (which may be
\* repeated at the end)
IsCycleOf(c, E) ==
    /\ c # <<>>
    /\ \A i \in 1..(Len(c) - 1) : <<c[i], c[i + 1]>> \in E
    /\ \/ Len(c) > 1 /\ c[Len(c)] = c[1]
       \/ <<c[Len(c)], c[1]>> \in E

\* C12: whenever get_graph_cycle() returns a non-empty list (after calls of
\* the mutators and the cycle queries), the list is a cycle of the graph in
\* traversal order: consecutive vertices are joined by an edge and the walk
\* closes on its first vertex, so every listed vertex lies on the cycle.
C12_CycleReportIsCycle ==
    ( /\ OnlyCalls(Mutators \cup CycleQueries)
      /\ outcome.call = "get_graph_cycle"
      /\ outcome.res # <<>> )
    => IsCycleOf(outcome.res, IdEdges)

\* the edges the caller has built with the first n calls: add_edge adds one,
\* remove_edge takes one away, remove_vertex takes away those at the vertex
RECURSIVE EdgesAfter(_)
EdgesAfter(n) ==
    IF n = 0 THEN {}
    ELSE LET E == EdgesAfter(n - 1)
             c == trace[n]
         IN  IF c.call = "add_edge" THEN E \cup {<<c.args[1], c.args[2]>>}
             ELSE IF c.call = "remove_edge" THEN E \ {<<c.args[1], c.args[2]>>}
             ELSE IF c.call = "remove_vertex"
             THEN {e \in E : e[1] # c.args[1] /\ e[2] # c.args[1]}
             ELSE E

BuiltEdges == EdgesAfter(Len(trace))

Inverse(E) == {<<e[2], e[1]>> : e \in E}

\* the edges followed in a direction
EdgesIn(E, direction) == IF direction = "forward" THEN E ELSE Inverse(E)

\* C13: whenever the graph the caller has built on a BaseDirectedGraph is
\* acyclic, get_vertex_dependants(id, direction) returns, for every id and
\* both directions, exactly the vertices reachable from id by one or more
\* edges in that direction (forward: successors, backward: predecessors), and
\* id is not among them.
C13_TransitiveClosure ==
    ~HasCycle(BuiltEdges) =>
        \A v \in VertexIds : \A dir \in Directions :
            LET r == BG_get_vertex_dependants(BGState, v, dir)
            IN  /\ r.exc = "none"
                /\ Range(r.res) = Descendants(EdgesIn(BuiltEdges, dir), v)
                /\ v \notin Range(r.res)

\* a cycle of E (a self-loop included) can be reached from v along E
CycleReachable(E, v) ==
    \E u \in {v} \cup Descendants(E, v) : u \in Descendants(E, u)

\* C14: whenever, in the graph the caller has built on a BaseDirectedGraph, a
\* cycle (a self-loop included) can be reached from id in the direction asked
\* for, get_vertex_dependants(id, direction) ends in the recursion error and
\* returns no result.
C14_ClosureOnCycleIsError ==
    \A v \in VertexIds : \A dir \in Directions :
        CycleReachable(EdgesIn(BuiltEdges, dir), v) =>
            LET r == BG_get_vertex_dependants(BGState, v, dir)
            IN  r.exc = "RecursionError" /\ r.res = <<>>

\* o lists every element of S once and nothing else
IsPermutationOf(o, S) == Range(o) = S /\ Len(o) = Cardinality(S)

\* a precedes b in o for every edge (a, b) of E
RespectsEdges(o, E) ==
    \A e \in E : /\ InList(e[1], o) /\ InList(e[2], o)
                 /\ IndexOf(e[1], o) < IndexOf(e[2], o)

Builders == {"add_vertex", "add_edge"}
PureQueries == {"get_graph_cycle", "is_cyclic", "sort_graph"}

\* C15: for every acyclic graph with at least one vertex built on a
\* BaseDirectedGraph with add_vertex and add_edge, get_graph_cycle() returns
\* [] and sort_graph() returns a list that holds every vertex exactly once
\* and places a before b for every edge (a, b).
C15_TopologicalSortValid ==
    ( /\ OnlyCalls(Builders \cup PureQueries)
      /\ vertices # <<>>
      /\ ~HasCycle(BuiltEdges) )
    => LET c == BG_get_graph_cycle(BGState)
           s == BG_sort_graph(BGState)
       IN  /\ c.exc = "none" /\ c.res = <<>>
           /\ s.exc = "none"
           /\ IsPermutationOf(s.res, Range(vertices))
           /\ RespectsEdges(s.res, BuiltEdges)
           /\ outcome.call = "sort_graph" =>
                  (outcome.exc = "none" /\ outcome.res = s.res)

\* C15's case: a chain of three vertices was built and sorted
C15_Witness ==
    /\ OnlyCalls(Builders \cup PureQueries)
    /\ outcome.call = "sort_graph"
    /\ outcome.exc = "none"
    /\ Len(vertices) = 3
    /\ Cardinality(BuiltEdges) = 2
    /\ ~HasCycle(BuiltEdges)
    /\ vertices # outcome.res

\* C16: for every graph built on a BaseDirectedGraph (with the mutators) that
\* holds a cycle - a self-loop included, also on the only vertex -
\* sort_graph() ends in an error and returns no order.
C16_SortRejectsCycles ==
    ( /\ OnlyCalls(Mutators \cup PureQueries)
      /\ HasCycle(BuiltEdges) )
    => LET s == BG_sort_graph(BGState)
       IN  s.exc # "none" /\ s.res = <<>>

\* the vertices that are an end of some edge of E
Endpoints(E) == {e[1] : e \in E} \cup {e[2] : e \in E}

\* in o, every entry that is an end of no edge of E comes after every entry
\* that is an end of some edge
IsolatedLast(o, E) ==
    \A i \in 1..Len(o) : \A j \in 1..Len(o) :
        (o[i] \notin Endpoints(E) /\ o[j] \in Endpoints(E)) => j < i

\* C17: when sort_graph('end') on a DirectedGraph built with add_vertex and
\* add_edge (acyclic, every token one vertex) returns an order, every vertex
\* with neither incoming nor outgoing edges comes after every vertex that has
\* an edge, whatever the order in which the vertices were inserted.
C17_IsolatedVerticesLast ==
    ( /\ OnlyCalls(Builders \cup {"sort_graph"})
      /\ ~HasCycle(BuiltEdges)
      /\ outcome.call = "sort_graph"
      /\ outcome.args = <<"end">>
      /\ outcome.exc = "none"
      /\ NoDuplicates(outcome.res) )
    => IsolatedLast(outcome.res, BuiltEdges)

\* the position of the first add_test_item call for a token
FirstRegistered(x) == CHOOSE i \in CallsOf("add_test_item") :
                          /\ trace[i].args[1] = x
                          /\ \A j \in CallsOf("add_test_item") : trace[j].args[1] = x => i <= j

\* the registered items with no slot and no relation
Unconstrained == RegisteredItems \ (SlotTokens \cup Endpoints(Relations))

\* C18: whenever sort_test_items_ids() returns, the items with no constraint
\* at all (no slot, no relation) appear in the order in which they were
\* registered; registering t1, t2, t3 alone yields [t1, t2, t3].
C18_StableTieBreaking ==
    Returned =>
        \A x \in Unconstrained : \A y \in Unconstrained :
            FirstRegistered(x) < FirstRegistered(y)
                => /\ InList(x, outcome.res) /\ InList(y, outcome.res)
                   /\ IndexOf(x, outcome.res) < IndexOf(y, outcome.res)

\* C19: on a DirectedGraph, remove_edge(a, b) for an edge (a, b) the graph
\* does not hold changes nothing - ID counter, ID maps, vertex list, both
\* adjacency maps - also when a or b is a token the graph has never seen.
C19_RemoveAbsentEdgeNoOp ==
    \A a \in Tokens : \A b \in Tokens :
        <<a, b>> \notin BuiltEdges =>
            LET r == DG_remove_edge(DGState, a, b)
            IN  r.exc = "none" /\ r.d = DGState

SameGraph(g, h) ==
    /\ g.vertices = h.vertices
    /\ \A v \in VertexIds : /\ Get(g.graph, v) = Get(h.graph, v)
                            /\ Get(g.graph_inv, v) = Get(h.graph_inv, v)

\* C21: on any acyclic graph built on a BaseDirectedGraph with the mutators,
\* get_vertex_dependants(id, direction) leaves the vertex list and both
\* adjacency maps as they were: no entry added, none duplicated.
C21_DependantsIsPureQuery ==
    ( /\ OnlyCalls(Mutators \cup PureQueries)
      /\ ~HasCycle(BuiltEdges) )
    => \A v \in VertexIds : \A dir \in Directions :
           LET r == BG_get_vertex_dependants(BGState, v, dir)
           IN  r.exc = "none" /\ SameGraph(r.g, BGState)

\* C22: when no relation was registered and every registered item occupies
\* one head or tail slot (so nothing is left once the slotted tokens are
\* removed from the working copy; no item at all included),
\* sort_test_items_ids() returns the occupied head tokens followed by the
\* occupied tail tokens - [] when there is no item - instead of failing.
C22_EmptyRemainder ==
    ( /\ Sorted
      /\ Relations = {}
      /\ RegisteredItems \subseteq SlotTokens
      /\ \A t \in Tokens : SlotCount(t) <= 1 )
    => /\ outcome.exc = "none"
       /\ outcome.res = HeadTokens \o TailTokens

====
